---- MODULE Spec2Model ----
(***************************************************************************)
(* Host runtimes of the protocol gateway sandbox.                          *)
(*                                                                         *)
(* The repository holds three versions of host/runtime.js:                 *)
(*   "single"      one instance, cold restart on a trap    (part_001)      *)
(*   "hot-standby" two instances, failover on a trap       (part_002)      *)
(*   "2oo3"        three instances, majority voting        (part_003)      *)
(* A process loads one of them; the variable runtime says which.           *)
(*                                                                         *)
(* The call into the sandbox (instance.exports.run(frame)) is the one      *)
(* thing the host does not decide: it returns a JavaScript value or        *)
(* throws an Error. It is modelled as a choice over a small set of         *)
(* outcomes, among them the placeholder object the 2oo3 runtime's source   *)
(* builds in place of the call.                                            *)
(***************************************************************************)
EXTENDS Integers, Sequences, FiniteSets, TLC

\* ------------------------------------------------------------------------
\* bounds of the model
\* ------------------------------------------------------------------------
\* processFrame calls that reach an instance, per run
MaxFrames == 2
\* processFrame calls of the 2oo3 runtime suspended at their await at once
MaxOverlap == 2
\* reload calls per run
MaxReloads == 1
\* further processFrame calls that reach the instances of a 2oo3 pool with
\* fewer than two healthy slots, once MaxFrames is used up
MaxDegradedFrames == 1

\* ------------------------------------------------------------------------
\* JavaScript values
\* ------------------------------------------------------------------------
\* A value is a record of one shape: kind, num (numbers), str (strings,
\* booleans) and props, the own enumerable properties of an object in
\* insertion order, each a key and a primitive value.
JSValue(k, n, s, ps) == [kind |-> k, num |-> n, str |-> s, props |-> ps]
JSUndefined == JSValue("undefined", 0, "", <<>>)
JSNull == JSValue("null", 0, "", <<>>)
JSTrue == JSValue("boolean", 0, "true", <<>>)
JSNumber(n) == JSValue("number", n, "", <<>>)
JSString(s) == JSValue("string", 0, s, <<>>)
JSObject(ps) == JSValue("object", 0, "", ps)
Prop(k, v) == [key |-> k, value |-> v]

\* ------------------------------------------------------------------------
\* JSON.stringify (ECMA-262 SerializeJSONProperty) on these values
\* ------------------------------------------------------------------------
QuoteJSONString(s) == "\"" \o s \o "\""

SerializeJSONPrimitive(v) ==
    CASE v.kind = "null" -> "null"
      [] v.kind = "boolean" -> v.str
      [] v.kind = "number" -> ToString(v.num)
      [] v.kind = "string" -> QuoteJSONString(v.str)

\* the members of an object: properties in insertion order, those whose value
\* is undefined left out, joined by commas
RECURSIVE SerializeJSONMembers(_, _)
SerializeJSONMembers(ps, first) ==
    IF ps = <<>> THEN ""
    ELSE IF Head(ps).value.kind = "undefined"
         THEN SerializeJSONMembers(Tail(ps), first)
         ELSE (IF first THEN "" ELSE ",")
              \o QuoteJSONString(Head(ps).key) \o ":" \o SerializeJSONPrimitive(Head(ps).value)
              \o SerializeJSONMembers(Tail(ps), FALSE)

\* String(v), the conversion a comparison by text could have used instead:
\* every plain object converts to the same text
StringOfValue(v) ==
    CASE v.kind = "undefined" -> JSString("undefined")
      [] v.kind = "object" -> JSString("[object Object]")
      [] OTHER -> JSString(SerializeJSONPrimitive(v))

\* JSON.stringify(v): a string, or undefined when v is undefined
JSONstringify(v) ==
    CASE v.kind = "undefined" -> JSUndefined
      [] v.kind = "object" -> JSString("{" \o SerializeJSONMembers(v.props, TRUE) \o "}")
      [] OTHER -> JSString(SerializeJSONPrimitive(v))

\* ------------------------------------------------------------------------
\* Error messages and the trap test
\* ------------------------------------------------------------------------
\* A message is a sequence of words; its text joins them with spaces.
RECURSIVE JoinWords(_)
JoinWords(ws) ==
    IF ws = <<>> THEN ""
    ELSE IF Len(ws) = 1 THEN Head(ws)
    ELSE Head(ws) \o " " \o JoinWords(Tail(ws))

\* String.prototype.includes, word by word
Includes(msg, needle) ==
    \E k \in 0..(Len(msg) - Len(needle)) :
        \A j \in 1..Len(needle) : msg[k + j] = needle[j]

\* error.message?.includes('wasm trap') || ...('unreachable') || ...('out of bounds')
isTrap(msg) ==
    \/ Includes(msg, <<"wasm", "trap">>)
    \/ Includes(msg, <<"unreachable">>)
    \/ Includes(msg, <<"out", "of", "bounds">>)

\* ------------------------------------------------------------------------
\* What one call into an instance does
\* ------------------------------------------------------------------------
\* It returns a value or throws an Error with a message.
Returned(v) == [threw |-> FALSE, value |-> v, message |-> <<>>]
Threw(msg) == [threw |-> TRUE, value |-> JSUndefined, message |-> msg]

\* the object the 2oo3 runtime builds where the call into the sandbox belongs
StubResult(idx) == JSObject(<<Prop("success", JSTrue), Prop("instance", JSNumber(idx))>>)

\* values a call may return: a decoded payload whose two fields come in
\* either order, and undefined (run is declared to return nothing)
PayloadAB == JSObject(<<Prop("unit", JSNumber(1)), Prop("reg", JSNumber(7))>>)
PayloadBA == JSObject(<<Prop("reg", JSNumber(7)), Prop("unit", JSNumber(1))>>)
Values == {PayloadAB, PayloadBA}

\* messages a call may throw with: those the trap test knows, by each of its
\* three patterns, and those it does not (the last is an error without text)
TrapMessages ==
    {<<"unreachable">>, <<"memory", "access", "out", "of", "bounds">>,
     <<"wasm", "trap:", "wasm", "trap", "in", "run">>}
OtherMessages == {<<"divide", "by", "zero">>, <<>>}

\* single, hot-standby: the value returned is not used by the host
Outcomes == {Returned(v) : v \in Values \cup {JSUndefined}}
            \cup {Threw(m) : m \in TrapMessages \cup OtherMessages}

\* 2oo3: what the call of slot idx may do; one message of each sort
VotedOutcomes(idx) ==
    {Returned(v) : v \in Values \cup {StubResult(idx)}}
    \cup {Threw(<<"unreachable">>), Threw(<<"divide", "by", "zero">>)}

\* ------------------------------------------------------------------------
\* 2oo3 voting
\* ------------------------------------------------------------------------
Slots == 0..2

\* a trap record that does not say which instance trapped
TrapRecordNoIndex(idx, msg) ==
    JSObject(<<Prop("trapped", JSTrue), Prop("error", JSString(JoinWords(msg)))>>)

\* what the callback of processFrame's map resolves to for a trap
TrapRecord(idx, msg) ==
    JSObject(<<Prop("trapped", JSTrue), Prop("instance", JSNumber(idx)),
               Prop("error", JSString(JoinWords(msg)))>>)

\* a vote that keeps suspecting the instance it last found faulty: once a
\* majority vote has named an instance, a unanimous text is still reported as
\* a 2/3 majority against that instance
voteSuspecting(results, s) ==
    LET r0 == JSONstringify(results[0])
        r1 == JSONstringify(results[1])
        r2 == JSONstringify(results[2])
        counted == [s EXCEPT !.voteCount = @ + 1]
    IN  IF r0 = r1 /\ r1 = r2 /\ s.lastFaultyInstance = -1
        THEN [voteResult |-> [result |-> results[0], unanimous |-> TRUE,
                              faulty |-> JSNull, agreement |-> "3/3"],
              stats |-> [counted EXCEPT !.unanimousVotes = @ + 1]]
        ELSE IF r0 = r1 /\ r1 = r2
        THEN [voteResult |-> [result |-> results[0], unanimous |-> FALSE,
                              faulty |-> JSNumber(s.lastFaultyInstance), agreement |-> "2/3"],
              stats |-> [counted EXCEPT !.majorityVotes = @ + 1]]
        ELSE IF r0 = r1
        THEN [voteResult |-> [result |-> results[0], unanimous |-> FALSE,
                              faulty |-> JSNumber(2), agreement |-> "2/3"],
              stats |-> [counted EXCEPT !.majorityVotes = @ + 1, !.lastFaultyInstance = 2]]
        ELSE IF r0 = r2
        THEN [voteResult |-> [result |-> results[0], unanimous |-> FALSE,
                              faulty |-> JSNumber(1), agreement |-> "2/3"],
              stats |-> [counted EXCEPT !.majorityVotes = @ + 1, !.lastFaultyInstance = 1]]
        ELSE IF r1 = r2
        THEN [voteResult |-> [result |-> results[1], unanimous |-> FALSE,
                              faulty |-> JSNumber(0), agreement |-> "2/3"],
              stats |-> [counted EXCEPT !.majorityVotes = @ + 1, !.lastFaultyInstance = 0]]
        ELSE [voteResult |-> [result |-> JSNull, unanimous |-> FALSE,
                              faulty |-> JSNumber(-1), agreement |-> "0/3",
                              critical |-> TRUE],
              stats |-> [counted EXCEPT !.splitVotes = @ + 1]]

\* a vote whose split branch returns without counting the split
voteUncountedSplit(results, s) ==
    LET r0 == JSONstringify(results[0])
        r1 == JSONstringify(results[1])
        r2 == JSONstringify(results[2])
        counted == [s EXCEPT !.voteCount = @ + 1]
    IN  IF r0 = r1 /\ r1 = r2
        THEN [voteResult |-> [result |-> results[0], unanimous |-> TRUE,
                              faulty |-> JSNull, agreement |-> "3/3"],
              stats |-> [counted EXCEPT !.unanimousVotes = @ + 1]]
        ELSE IF r0 = r1
        THEN [voteResult |-> [result |-> results[0], unanimous |-> FALSE,
                              faulty |-> JSNumber(2), agreement |-> "2/3"],
              stats |-> [counted EXCEPT !.majorityVotes = @ + 1, !.lastFaultyInstance = 2]]
        ELSE IF r0 = r2
        THEN [voteResult |-> [result |-> results[0], unanimous |-> FALSE,
                              faulty |-> JSNumber(1), agreement |-> "2/3"],
              stats |-> [counted EXCEPT !.majorityVotes = @ + 1, !.lastFaultyInstance = 1]]
        ELSE IF r1 = r2
        THEN [voteResult |-> [result |-> results[1], unanimous |-> FALSE,
                              faulty |-> JSNumber(0), agreement |-> "2/3"],
              stats |-> [counted EXCEPT !.majorityVotes = @ + 1, !.lastFaultyInstance = 0]]
        ELSE [voteResult |-> [result |-> JSNull, unanimous |-> FALSE,
                              faulty |-> JSNumber(-1), agreement |-> "0/3",
                              critical |-> TRUE],
              stats |-> counted]

\* vote(results): the returned object, and the statistics it leaves behind
vote(results, s) ==
    LET r0 == JSONstringify(results[0])
        r1 == JSONstringify(results[1])
        r2 == JSONstringify(results[2])
        counted == [s EXCEPT !.voteCount = @ + 1]
    IN  IF r0 = r1 /\ r1 = r2
        THEN [voteResult |-> [result |-> results[0], unanimous |-> TRUE,
                              faulty |-> JSNull, agreement |-> "3/3"],
              stats |-> [counted EXCEPT !.unanimousVotes = @ + 1]]
        ELSE IF r0 = r1
        THEN [voteResult |-> [result |-> results[0], unanimous |-> FALSE,
                              faulty |-> JSNumber(2), agreement |-> "2/3"],
              stats |-> [counted EXCEPT !.majorityVotes = @ + 1, !.lastFaultyInstance = 2]]
        ELSE IF r0 = r2
        THEN [voteResult |-> [result |-> results[0], unanimous |-> FALSE,
                              faulty |-> JSNumber(1), agreement |-> "2/3"],
              stats |-> [counted EXCEPT !.majorityVotes = @ + 1, !.lastFaultyInstance = 1]]
        ELSE IF r1 = r2
        THEN [voteResult |-> [result |-> results[1], unanimous |-> FALSE,
                              faulty |-> JSNumber(0), agreement |-> "2/3"],
              stats |-> [counted EXCEPT !.majorityVotes = @ + 1, !.lastFaultyInstance = 0]]
        ELSE [voteResult |-> [result |-> JSNull, unanimous |-> FALSE,
                              faulty |-> JSNumber(-1), agreement |-> "0/3",
                              critical |-> TRUE],
              stats |-> [counted EXCEPT !.splitVotes = @ + 1]]

\* ------------------------------------------------------------------------
\* State
\* ------------------------------------------------------------------------
VARIABLES
    runtime,         \* which host/runtime.js the process has loaded
    boot,            \* how far createGateway has come
    compiledModule,  \* the cached compiled module, NullRef before compileModule
    instance,        \* single: the sole instance
    instancePool,    \* hot-standby, 2oo3: instance of each slot
    instanceHealth,  \* 2oo3: health flag of each slot
    activeIndex,     \* hot-standby: the active slot
    stats,           \* the counters of the loaded runtime
    pending,         \* processFrame calls suspended at an await, oldest first
    rebuilds,        \* per slot, rebuildInstanceAsync calls awaiting createInstance
    reloads,         \* reload calls awaiting createInstance (their index argument)
    created,         \* instances created so far; the newest has this identity
    reloadCalls,     \* reload calls made so far
    reply,           \* settlement of a processFrame promise in the latest step
    failedRebuilds,  \* 2oo3: slots whose rebuild was rejected (logged by .catch), no reload since
    trappedInstances, \* hot-standby: the instances that have trapped
    sourceVersion,   \* modbus-source.js: "result" (Result-wrapped) or "direct"
    frameQueue,      \* modbus-source.js: the frames queued, oldest first
    chaosMode,       \* modbus-source.js: whether chaos frames may be injected
    received,        \* what the last receiveFrame call returned, and how
    queuedFrames,    \* every frame queueFrame was given, in call order
    dequeuedFrames,  \* every frame receiveFrame took from the queue, in call order
    publishedMessages, \* mqtt-sink.js: the stored messages (references), in call order
    publishCallback, \* mqtt-sink.js: the registered callback, NullRef if none
    messageObjects,  \* the message objects created so far; a reference is an index
    callbackCalls,   \* every call of a callback: its arguments and the store it saw
    snapshot,        \* the array the last getPublishedMessages call returned
    sinkReturn,      \* the last call into the sink and what it returned
    attack,          \* chaos-attacks.js: the last generator called and its frame
    request,         \* buildReadResponse: the arguments of the call
    response         \* buildReadResponse: the frame each version returned

gatewayVars == <<runtime, boot, compiledModule, instance, instancePool, instanceHealth,
                 activeIndex, stats, pending, rebuilds, reloads, created, reloadCalls, reply,
                 failedRebuilds, trappedInstances>>
sourceVars == <<sourceVersion, frameQueue, chaosMode, received, queuedFrames, dequeuedFrames>>
sinkVars == <<publishedMessages, publishCallback, messageObjects, callbackCalls, snapshot,
             sinkReturn>>
attackVars == <<attack>>
builderVars == <<request, response>>
shimVars == <<sourceVars, sinkVars, attackVars, builderVars>>

vars == <<gatewayVars, shimVars>>

\* null, for the module and for instances; instances are numbered from 1
NullRef == 0

Runtimes == {"single", "hot-standby", "2oo3"}

PoolSlots(rt) ==
    CASE rt = "single" -> {}
      [] rt = "hot-standby" -> 0..1
      [] rt = "2oo3" -> Slots

InitialStats(rt) ==
    CASE rt = "single" -> [crashCount |-> 0, totalFrames |-> 0]
      [] rt = "hot-standby" ->
            [crashCount |-> 0, totalFrames |-> 0, switchoverCount |-> 0, coldRestarts |-> 0]
      [] rt = "2oo3" ->
            [crashCount |-> 0, voteCount |-> 0, unanimousVotes |-> 0, majorityVotes |-> 0,
             splitVotes |-> 0, totalFrames |-> 0, lastFaultyInstance |-> -1]

NoReply == [settled |-> "none"]
\* a return held back until the rebuilds the call started have finished
ResolvedAfterRebuild(call, ret, started) ==
    IF started = {}
    THEN [settled |-> "resolved", call |-> call, ret |-> ret, rebuildStarted |-> started]
    ELSE [settled |-> "none"]

Resolved(call, ret, started) ==
    [settled |-> "resolved", call |-> call, ret |-> ret, rebuildStarted |-> started]
Rejected(call, msg) ==
    [settled |-> "rejected", call |-> call, error |-> msg, rebuildStarted |-> {}]

\* a call that reached no instance
NoCall == [results |-> <<>>, trapped |-> {}, invoked |-> <<>>, staleInvoked |-> {},
           rejected |-> FALSE, error |-> <<>>, quorumRestored |-> FALSE, hung |-> {},
           thrown |-> {}]

NotInitializedMessage == <<"Gateway", "not", "initialized">>
InstantiateMessage == <<"WebAssembly.instantiate", "failed">>

\* modbus-source.js as loaded: empty queue, chaos mode off
NoFrame == [from |-> "none"]
SourceLoaded ==
    /\ frameQueue = <<>>
    /\ chaosMode = FALSE
    /\ received = NoFrame
    /\ queuedFrames = <<>>
    /\ dequeuedFrames = <<>>

\* mqtt-sink.js as loaded: nothing stored, no callback
NoSinkCall == [op |-> "none"]
NoSnapshot == [taken |-> FALSE]
SinkLoaded ==
    /\ publishedMessages = <<>>
    /\ publishCallback = NullRef
    /\ messageObjects = <<>>
    /\ callbackCalls = <<>>
    /\ snapshot = NoSnapshot
    /\ sinkReturn = NoSinkCall

\* chaos-attacks.js as loaded: no generator called yet
NoAttack == [name |-> "none"]

\* buildReadResponse not called
NotBuilt == [built |-> FALSE]
NoRequest == [unitId |-> 1, transactionId |-> 1, registers |-> <<>>]
BuilderIdle ==
    /\ request = NoRequest
    /\ response = [dataView |-> NotBuilt, bytes |-> NotBuilt]

\* the shims as loaded next to the runtime
ShimsLoaded ==
    /\ sourceVersion = "direct"
    /\ SourceLoaded
    /\ SinkLoaded
    /\ attack = NoAttack
    /\ BuilderIdle

\* the module as loaded: nothing compiled, every slot null
Init ==
    /\ runtime \in Runtimes
    /\ boot = "loaded"
    /\ compiledModule = NullRef
    /\ instance = NullRef
    /\ instancePool = [i \in PoolSlots(runtime) |-> NullRef]
    /\ instanceHealth = [i \in PoolSlots(runtime) |-> TRUE]
    /\ activeIndex = 0
    /\ stats = InitialStats(runtime)
    /\ pending = <<>>
    /\ rebuilds = [i \in PoolSlots(runtime) |-> 0]
    /\ reloads = <<>>
    /\ created = 0
    /\ reloadCalls = 0
    /\ reply = NoReply
    /\ failedRebuilds = {}
    /\ trappedInstances = {}
    /\ ShimsLoaded

\* ------------------------------------------------------------------------
\* createGateway: compileModule, then the pool
\* ------------------------------------------------------------------------
\* await compileModule(): WebAssembly.compile resolves, or rejects and
\* createGateway rejects with it
CompileModule ==
    /\ boot = "loaded"
    /\ \E ok \in BOOLEAN :
        IF ok THEN compiledModule' = 1 /\ boot' = "compiled"
              ELSE compiledModule' = compiledModule /\ boot' = "failed"
    /\ reply' = NoReply
    /\ UNCHANGED <<trappedInstances, failedRebuilds, shimVars, runtime, instance, instancePool, instanceHealth, activeIndex, stats,
                   pending, rebuilds, reloads, created, reloadCalls>>

\* a pool initialization that awaits the createInstance calls one after the
\* other and fills each slot as its instance arrives
InitializePoolOneByOne ==
    /\ boot = "compiled"
    /\ \E n \in 0..Cardinality(PoolSlots(runtime)) :
        /\ boot' = IF n = Cardinality(PoolSlots(runtime)) THEN "ready" ELSE "failed"
        /\ created' = created + n
        /\ instance' = IF runtime = "single" /\ n = 1 THEN created + 1 ELSE instance
        /\ instancePool' = [i \in PoolSlots(runtime) |->
                               IF i < n THEN created + i + 1 ELSE NullRef]
        /\ instanceHealth' = [i \in PoolSlots(runtime) |-> TRUE]
    /\ reply' = NoReply
    /\ UNCHANGED <<trappedInstances, failedRebuilds, shimVars, runtime, compiledModule, activeIndex, stats, pending, rebuilds,
                   reloads, reloadCalls>>

\* await initializePool() (single: await createInstance()): every slot gets its
\* own new instance once all createInstance calls have resolved; if one rejects,
\* Promise.all rejects and no slot is assigned
InitializePool ==
    /\ boot = "compiled"
    /\ \E ok \in BOOLEAN :
        IF ok
        THEN /\ boot' = "ready"
             /\ created' = created + IF runtime = "single" THEN 1 ELSE Cardinality(PoolSlots(runtime))
             /\ instance' = IF runtime = "single" THEN created + 1 ELSE instance
             /\ instancePool' = [i \in PoolSlots(runtime) |-> created + i + 1]
             /\ instanceHealth' = [i \in PoolSlots(runtime) |-> TRUE]
        ELSE /\ boot' = "failed"
             /\ UNCHANGED <<created, instance, instancePool, instanceHealth>>
    /\ reply' = NoReply
    /\ UNCHANGED <<trappedInstances, failedRebuilds, shimVars, runtime, compiledModule, activeIndex, stats, pending, rebuilds,
                   reloads, reloadCalls>>

\* ------------------------------------------------------------------------
\* 2oo3: processFrame
\* the slots whose health flag is set (getStats: instancesHealthy counts them)
HealthySlots == {i \in DOMAIN instanceHealth : instanceHealth[i]}

\* a callback that turns every thrown error into a trap record
CallbackFulfilsAlways(o) == TRUE

\* ------------------------------------------------------------------------
\* what the map callback's promise settles with for instance idx: the value,
\* a trap record for a thrown error the trap test accepts, and a rejection
\* (the error rethrown) for any other thrown error
CallbackFulfils(o) == ~o.threw \/ isTrap(o.message)

CallbackValue(idx, o) == IF o.threw THEN TrapRecord(idx, o.message) ELSE o.value

\* a call that goes on to the vote once two callbacks have settled, the
\* result of the third still undefined
StartedCallAfterTwo(outs) ==
    LET rejecting == {i \in 0..1 : ~CallbackFulfils(outs[i])}
        first == CHOOSE i \in rejecting : \A j \in rejecting : i <= j
    IN  [results |-> IF rejecting = {}
                     THEN [i \in Slots |-> IF i = 2 THEN JSUndefined
                                                    ELSE CallbackValue(i, outs[i])]
                     ELSE <<>>,
         trapped |-> {i \in 0..1 : outs[i].threw /\ isTrap(outs[i].message)},
         invoked |-> instancePool,
         staleInvoked |-> {i \in Slots : ~instanceHealth[i]},
         rejected |-> rejecting # {},
         error |-> IF rejecting = {} THEN <<>> ELSE outs[first].message,
         quorumRestored |-> /\ stats.majorityVotes > 0
                            /\ \A i \in Slots : instanceHealth[i] /\ rebuilds[i] = 0,
         hung |-> {},
         thrown |-> {outs[i].message : i \in {j \in Slots : outs[j].threw}}]

\* the call up to its await: the three callbacks have run, in slot order
StartedCall(outs) ==
    LET rejecting == {i \in Slots : ~CallbackFulfils(outs[i])}
        first == CHOOSE i \in rejecting : \A j \in rejecting : i <= j
    IN  [results |-> IF rejecting = {}
                     THEN [i \in Slots |-> CallbackValue(i, outs[i])]
                     ELSE <<>>,
         trapped |-> {i \in Slots : outs[i].threw /\ isTrap(outs[i].message)},
         invoked |-> instancePool,
         staleInvoked |-> {i \in Slots : ~instanceHealth[i]},
         rejected |-> rejecting # {},
         error |-> IF rejecting = {} THEN <<>> ELSE outs[first].message,
         quorumRestored |-> /\ stats.majorityVotes > 0
                            /\ \A i \in Slots : instanceHealth[i] /\ rebuilds[i] = 0,
         hung |-> {},
         thrown |-> {outs[i].message : i \in {j \in Slots : outs[j].threw}}]

\* statistics that count one crash for a frame, however many instances trapped
CountFramePerCall(s, traps) ==
    [s EXCEPT !.totalFrames = @ + 1, !.crashCount = @ + IF traps > 0 THEN 1 ELSE 0]

\* stats.totalFrames++ once, stats.crashCount++ in each callback that caught a trap
CountFrame(s, traps) ==
    [s EXCEPT !.totalFrames = @ + 1, !.crashCount = @ + traps]

\* processFrame up to `await Promise.all(...)`
ProcessFrameCall ==
    /\ runtime = "2oo3"
    /\ IF \E i \in Slots : instancePool[i] = NullRef
       THEN /\ reply' = Rejected(NoCall, NotInitializedMessage)
            /\ UNCHANGED <<stats, pending>>
       ELSE /\ stats.totalFrames < MaxFrames + (IF Cardinality(HealthySlots) < 2
                                                 THEN MaxDegradedFrames ELSE 0)
            /\ Len(pending) < MaxOverlap
            /\ \E o0 \in VotedOutcomes(0), o1 \in VotedOutcomes(1), o2 \in VotedOutcomes(2) :
                LET outs == [i \in Slots |-> IF i = 0 THEN o0 ELSE IF i = 1 THEN o1 ELSE o2]
                    call == StartedCall(outs)
                IN  /\ pending' = Append(pending, call)
                    /\ stats' = CountFrame(stats, Cardinality(call.trapped))
            /\ reply' = NoReply
    /\ UNCHANGED <<trappedInstances, failedRebuilds, shimVars, runtime, boot, compiledModule, instance, instancePool, instanceHealth,
                   activeIndex, rebuilds, reloads, created, reloadCalls>>

\* processFrame without its unanimous branch
HandleVoteNoUnanimous(voteResult) ==
    IF voteResult.faulty.kind # "null" /\ voteResult.faulty.num >= 0
    THEN [ret |-> [success |-> TRUE, vote |-> voteResult.agreement,
                   faultyInstance |-> voteResult.faulty.num,
                   result |-> voteResult.result],
          rebuild |-> {voteResult.faulty.num}]
    ELSE IF "critical" \in DOMAIN voteResult /\ voteResult.critical
    THEN [ret |-> [success |-> FALSE, vote |-> voteResult.agreement, critical |-> TRUE],
          rebuild |-> {}]
    ELSE [ret |-> [success |-> FALSE], rebuild |-> {}]

\* processFrame reporting the faulty instance without rebuilding it
HandleVoteNoRebuild(voteResult) ==
    IF voteResult.unanimous
    THEN [ret |-> [success |-> TRUE, vote |-> voteResult.agreement,
                   result |-> voteResult.result],
          rebuild |-> {}]
    ELSE IF voteResult.faulty.kind # "null" /\ voteResult.faulty.num >= 0
    THEN [ret |-> [success |-> TRUE, vote |-> voteResult.agreement,
                   faultyInstance |-> voteResult.faulty.num,
                   result |-> voteResult.result],
          rebuild |-> {}]
    ELSE IF "critical" \in DOMAIN voteResult /\ voteResult.critical
    THEN [ret |-> [success |-> FALSE, vote |-> voteResult.agreement, critical |-> TRUE],
          rebuild |-> {}]
    ELSE [ret |-> [success |-> FALSE], rebuild |-> {}]

\* processFrame rebuilding the whole pool after a split vote
HandleVoteRebuildAll(voteResult) ==
    IF voteResult.unanimous
    THEN [ret |-> [success |-> TRUE, vote |-> voteResult.agreement,
                   result |-> voteResult.result],
          rebuild |-> {}]
    ELSE IF voteResult.faulty.kind # "null" /\ voteResult.faulty.num >= 0
    THEN [ret |-> [success |-> TRUE, vote |-> voteResult.agreement,
                   faultyInstance |-> voteResult.faulty.num,
                   result |-> voteResult.result],
          rebuild |-> {voteResult.faulty.num}]
    ELSE IF "critical" \in DOMAIN voteResult /\ voteResult.critical
    THEN [ret |-> [success |-> FALSE, vote |-> voteResult.agreement, critical |-> TRUE],
          rebuild |-> {0, 1, 2}]
    ELSE [ret |-> [success |-> FALSE], rebuild |-> {}]

\* what processFrame does with the vote: the object it returns and the slots
\* it calls rebuildInstanceAsync for
HandleVote(voteResult) ==
    IF voteResult.unanimous
    THEN [ret |-> [success |-> TRUE, vote |-> voteResult.agreement,
                   result |-> voteResult.result],
          rebuild |-> {}]
    ELSE IF voteResult.faulty.kind # "null" /\ voteResult.faulty.num >= 0
    THEN [ret |-> [success |-> TRUE, vote |-> voteResult.agreement,
                   faultyInstance |-> voteResult.faulty.num,
                   result |-> voteResult.result],
          rebuild |-> {voteResult.faulty.num}]
    ELSE IF "critical" \in DOMAIN voteResult /\ voteResult.critical
    THEN [ret |-> [success |-> FALSE, vote |-> voteResult.agreement, critical |-> TRUE],
          rebuild |-> {}]
    ELSE [ret |-> [success |-> FALSE], rebuild |-> {}]

\* a continuation that read the results of the call started last, as it would
\* if `results` were shared by the calls
LatestCall(p) == p[Len(p)]

\* `const results` is local to each call: the continuation that runs first
\* belongs to the call suspended first and holds that call's results
ResumedCall(p) == Head(p)

\* processFrame from the await to its return: the vote, the rebuild it starts
\* (rebuildInstanceAsync runs up to its own await: the health flag is cleared
\* and createInstance is under way), and the returned object
ProcessFrameReturn ==
    /\ runtime = "2oo3"
    /\ pending # <<>>
    /\ LET call == ResumedCall(pending)
           voted == vote(call.results, stats)
           handled == HandleVote(voted.voteResult)
       IN  IF call.rejected
           THEN /\ reply' = Rejected(call, call.error)
                /\ UNCHANGED <<stats, instanceHealth, rebuilds>>
           ELSE /\ stats' = voted.stats
                /\ instanceHealth' = [i \in Slots |->
                                        IF i \in handled.rebuild THEN FALSE ELSE instanceHealth[i]]
                /\ rebuilds' = [i \in Slots |->
                                  IF i \in handled.rebuild THEN rebuilds[i] + 1 ELSE rebuilds[i]]
                /\ reply' = Resolved(call, handled.ret, handled.rebuild)
    /\ pending' = Tail(pending)
    /\ UNCHANGED <<trappedInstances, failedRebuilds, shimVars, runtime, boot, compiledModule, instance, instancePool, activeIndex,
                   reloads, created, reloadCalls>>

\* a rebuild that, once its instance is in place, declares the whole pool
\* restored
RebuildInstanceDoneRestoresPool(i) ==
    /\ runtime = "2oo3"
    /\ pending = <<>>
    /\ rebuilds[i] > 0
    /\ rebuilds' = [rebuilds EXCEPT ![i] = @ - 1]
    /\ \E ok \in BOOLEAN :
        IF ok
        THEN /\ created' = created + 1
             /\ instancePool' = [instancePool EXCEPT ![i] = created + 1]
             /\ instanceHealth' = [j \in Slots |-> TRUE]
             /\ UNCHANGED failedRebuilds
        ELSE /\ failedRebuilds' = failedRebuilds \cup {i}
             /\ UNCHANGED <<created, instancePool, instanceHealth>>
    /\ reply' = NoReply
    /\ UNCHANGED <<trappedInstances, shimVars, runtime, boot, compiledModule, instance, activeIndex, stats, pending,
                   reloads, reloadCalls>>

\* rebuildInstanceAsync after its await: createInstance resolved with a new
\* instance, or rejected (the rejection is caught and logged by processFrame's
\* .catch, and the slot is left as it was)
RebuildInstanceDone(i) ==
    /\ runtime = "2oo3"
    /\ pending = <<>>
    /\ rebuilds[i] > 0
    /\ rebuilds' = [rebuilds EXCEPT ![i] = @ - 1]
    /\ \E ok \in BOOLEAN :
        IF ok
        THEN /\ created' = created + 1
             /\ instancePool' = [instancePool EXCEPT ![i] = created + 1]
             /\ instanceHealth' = [instanceHealth EXCEPT ![i] = TRUE]
             /\ UNCHANGED failedRebuilds
        ELSE /\ failedRebuilds' = failedRebuilds \cup {i}
             /\ UNCHANGED <<created, instancePool, instanceHealth>>
    /\ reply' = NoReply
    /\ UNCHANGED <<trappedInstances, shimVars, runtime, boot, compiledModule, instance, activeIndex, stats, pending,
                   reloads, reloadCalls>>

\* a reload that compiled the module again before instantiating
ReloadCallRecompiling(i) ==
    /\ runtime = "2oo3"
    /\ boot = "ready"
    /\ reloadCalls < MaxReloads
    /\ reloadCalls' = reloadCalls + 1
    /\ reloads' = Append(reloads, i)
    /\ compiledModule' = compiledModule + 1
    /\ reply' = NoReply
    /\ UNCHANGED <<trappedInstances, failedRebuilds, shimVars, runtime, boot, instance, instancePool, instanceHealth,
                   activeIndex, stats, pending, rebuilds, created>>

\* reload(index) up to its await
ReloadCall(i) ==
    /\ runtime = "2oo3"
    /\ boot = "ready"
    /\ reloadCalls < MaxReloads
    /\ reloadCalls' = reloadCalls + 1
    /\ reloads' = Append(reloads, i)
    /\ reply' = NoReply
    /\ UNCHANGED <<trappedInstances, failedRebuilds, shimVars, runtime, boot, compiledModule, instance, instancePool, instanceHealth,
                   activeIndex, stats, pending, rebuilds, created>>

\* a reload that puts the new instance in slot 0, the default of its
\* parameter, whatever index it was called with
ReloadDoneDefaultIndex(k) ==
    /\ runtime = "2oo3"
    /\ pending = <<>>
    /\ k \in DOMAIN reloads
    /\ reloads' = [j \in 1..(Len(reloads) - 1) |-> IF j < k THEN reloads[j] ELSE reloads[j + 1]]
    /\ \E ok \in BOOLEAN :
        IF ok
        THEN /\ created' = created + 1
             /\ instancePool' = [instancePool EXCEPT ![0] = created + 1]
             /\ instanceHealth' = [instanceHealth EXCEPT ![0] = TRUE]
             /\ failedRebuilds' = failedRebuilds \ {0}
        ELSE UNCHANGED <<created, instancePool, instanceHealth, failedRebuilds>>
    /\ reply' = NoReply
    /\ UNCHANGED <<trappedInstances, shimVars, runtime, boot, compiledModule, instance, activeIndex, stats, pending,
                   rebuilds, reloadCalls>>

\* reload(index) after its await: the slot gets the new instance and is marked
\* healthy, or createInstance rejected and reload rejects with it
ReloadDone(k) ==
    /\ runtime = "2oo3"
    /\ pending = <<>>
    /\ k \in DOMAIN reloads
    /\ reloads' = [j \in 1..(Len(reloads) - 1) |-> IF j < k THEN reloads[j] ELSE reloads[j + 1]]
    /\ \E ok \in BOOLEAN :
        IF ok
        THEN /\ created' = created + 1
             /\ instancePool' = [instancePool EXCEPT ![reloads[k]] = created + 1]
             /\ instanceHealth' = [instanceHealth EXCEPT ![reloads[k]] = TRUE]
             /\ failedRebuilds' = failedRebuilds \ {reloads[k]}
        ELSE UNCHANGED <<created, instancePool, instanceHealth, failedRebuilds>>
    /\ reply' = NoReply
    /\ UNCHANGED <<trappedInstances, shimVars, runtime, boot, compiledModule, instance, activeIndex, stats, pending,
                   rebuilds, reloadCalls>>

\* ------------------------------------------------------------------------
\* hot-standby
\* ------------------------------------------------------------------------
\* a switchover that leaves the active index where it was
StandbyStays(a) == a

\* activeIndex = (activeIndex + 1) % 2
Standby(a) == (a + 1) % 2

\* a frame handed to both instances of the pair
DispatchedBoth(a) == {0, 1}

\* the instances a frame is handed to: the active one
Dispatched(a) == {a}

\* processFrame: it has no await, so it runs in one step. The value the
\* instance returns is not used; a trap switches the active slot and starts
\* the rebuild of the failed one; any other error is rethrown.
ProcessFrameHotStandby ==
    /\ runtime = "hot-standby"
    /\ IF instancePool[activeIndex] = NullRef
       THEN /\ reply' = Rejected(NoCall, NotInitializedMessage)
            /\ UNCHANGED <<stats, activeIndex, rebuilds, trappedInstances>>
       ELSE /\ stats.totalFrames < MaxFrames
            /\ \E o \in Outcomes :
                LET failedIndex == activeIndex
                    call == [NoCall EXCEPT
                                !.invoked = [i \in Dispatched(activeIndex) |-> instancePool[i]],
                                !.trapped = IF o.threw /\ isTrap(o.message)
                                            THEN {activeIndex} ELSE {},
                                !.rejected = o.threw /\ ~isTrap(o.message),
                                !.error = o.message,
                                !.thrown = IF o.threw THEN {o.message} ELSE {}]
                IN  IF ~o.threw
                    THEN /\ stats' = [stats EXCEPT !.totalFrames = @ + 1]
                         /\ reply' = Resolved(call, [success |-> TRUE, instance |-> activeIndex], {})
                         /\ UNCHANGED <<activeIndex, rebuilds, trappedInstances>>
                    ELSE IF isTrap(o.message)
                    THEN /\ stats' = [stats EXCEPT !.totalFrames = @ + 1,
                                                   !.crashCount = @ + 1,
                                                   !.switchoverCount = @ + 1]
                         /\ activeIndex' = Standby(activeIndex)
                         /\ rebuilds' = [rebuilds EXCEPT ![failedIndex] = @ + 1]
                         /\ trappedInstances' = trappedInstances \cup {instancePool[failedIndex]}
                         /\ reply' = Resolved(call,
                                              [success |-> FALSE, failover |-> TRUE,
                                               newInstance |-> Standby(activeIndex)],
                                              {failedIndex})
                    ELSE /\ stats' = [stats EXCEPT !.totalFrames = @ + 1]
                         /\ reply' = Rejected(call, o.message)
                         /\ UNCHANGED <<activeIndex, rebuilds, trappedInstances>>
    /\ UNCHANGED <<failedRebuilds, shimVars, runtime, boot, compiledModule, instance, instancePool, instanceHealth,
                   pending, reloads, created, reloadCalls>>

\* a background rebuild that leaves coldRestarts as it was
RebuildInstanceDoneHotStandbyUncounted(i) ==
    /\ runtime = "hot-standby"
    /\ rebuilds[i] > 0
    /\ rebuilds' = [rebuilds EXCEPT ![i] = @ - 1]
    /\ \E ok \in BOOLEAN :
        IF ok
        THEN /\ created' = created + 1
             /\ instancePool' = [instancePool EXCEPT ![i] = created + 1]
             /\ stats' = stats
        ELSE UNCHANGED <<created, instancePool, stats>>
    /\ reply' = NoReply
    /\ UNCHANGED <<trappedInstances, failedRebuilds, shimVars, runtime, boot, compiledModule, instance, instanceHealth, activeIndex,
                   pending, reloads, reloadCalls>>

\* rebuildInstanceAsync after its await
RebuildInstanceDoneHotStandby(i) ==
    /\ runtime = "hot-standby"
    /\ rebuilds[i] > 0
    /\ rebuilds' = [rebuilds EXCEPT ![i] = @ - 1]
    /\ \E ok \in BOOLEAN :
        IF ok
        THEN /\ created' = created + 1
             /\ instancePool' = [instancePool EXCEPT ![i] = created + 1]
             /\ stats' = [stats EXCEPT !.coldRestarts = @ + 1]
        ELSE UNCHANGED <<created, instancePool, stats>>
    /\ reply' = NoReply
    /\ UNCHANGED <<trappedInstances, failedRebuilds, shimVars, runtime, boot, compiledModule, instance, instanceHealth, activeIndex,
                   pending, reloads, reloadCalls>>

\* reload() up to its await
ReloadCallHotStandby ==
    /\ runtime = "hot-standby"
    /\ boot = "ready"
    /\ reloadCalls < MaxReloads
    /\ reloadCalls' = reloadCalls + 1
    /\ reloads' = Append(reloads, 0)
    /\ reply' = NoReply
    /\ UNCHANGED <<trappedInstances, failedRebuilds, shimVars, runtime, boot, compiledModule, instance, instancePool, instanceHealth,
                   activeIndex, stats, pending, rebuilds, created>>

\* reload() after its await: the slot active by then gets the new instance
ReloadDoneHotStandby ==
    /\ runtime = "hot-standby"
    /\ reloads # <<>>
    /\ reloads' = Tail(reloads)
    /\ \E ok \in BOOLEAN :
        IF ok
        THEN /\ created' = created + 1
             /\ instancePool' = [instancePool EXCEPT ![activeIndex] = created + 1]
             /\ stats' = [stats EXCEPT !.coldRestarts = @ + 1]
        ELSE UNCHANGED <<created, instancePool, stats>>
    /\ reply' = NoReply
    /\ UNCHANGED <<trappedInstances, failedRebuilds, shimVars, runtime, boot, compiledModule, instance, instanceHealth, activeIndex,
                   pending, rebuilds, reloadCalls>>

\* getStats() of the hot-standby runtime (the timing samples left out)
getStatsHotStandby ==
    [crashCount |-> stats.crashCount,
     totalFrames |-> stats.totalFrames,
     moduleLoaded |-> compiledModule # NullRef,
     poolSize |-> 2,
     activeInstance |-> activeIndex,
     standbyInstance |-> (activeIndex + 1) % 2,
     instancesReady |-> Cardinality({i \in DOMAIN instancePool : instancePool[i] # NullRef}),
     switchoverCount |-> stats.switchoverCount,
     coldRestarts |-> stats.coldRestarts]

\* a processFrame that counts the frame before it looks for the instance
ProcessFrameSingleCountingFirst ==
    /\ runtime = "single"
    /\ IF instance = NullRef
       THEN /\ stats.totalFrames < MaxFrames
            /\ stats' = [stats EXCEPT !.totalFrames = @ + 1]
            /\ reply' = Rejected(NoCall, NotInitializedMessage)
            /\ UNCHANGED pending
       ELSE /\ stats.totalFrames < MaxFrames
            /\ Len(pending) < MaxOverlap
            /\ \E o \in Outcomes :
                LET call == [NoCall EXCEPT
                                !.invoked = <<instance>>,
                                !.trapped = IF o.threw /\ isTrap(o.message) THEN {0} ELSE {},
                                !.rejected = o.threw,
                                !.error = o.message,
                                !.thrown = IF o.threw THEN {o.message} ELSE {}]
                IN  IF ~o.threw
                    THEN /\ stats' = [stats EXCEPT !.totalFrames = @ + 1]
                         /\ reply' = Resolved(call, [success |-> TRUE], {})
                         /\ UNCHANGED pending
                    ELSE IF isTrap(o.message)
                    THEN /\ stats' = [stats EXCEPT !.totalFrames = @ + 1, !.crashCount = @ + 1]
                         /\ pending' = Append(pending, call)
                         /\ reply' = NoReply
                    ELSE /\ stats' = [stats EXCEPT !.totalFrames = @ + 1]
                         /\ reply' = Rejected(call, o.message)
                         /\ UNCHANGED pending
    /\ UNCHANGED <<trappedInstances, failedRebuilds, shimVars, runtime, boot, compiledModule, instance, instancePool, instanceHealth,
                   activeIndex, rebuilds, reloads, created, reloadCalls>>

\* ------------------------------------------------------------------------
\* single instance
\* ------------------------------------------------------------------------
\* processFrame up to its return, or, on a trap, up to `await createInstance()`
ProcessFrameSingle ==
    /\ runtime = "single"
    /\ IF instance = NullRef
       THEN /\ reply' = Rejected(NoCall, NotInitializedMessage)
            /\ UNCHANGED <<stats, pending>>
       ELSE /\ stats.totalFrames < MaxFrames
            /\ Len(pending) < MaxOverlap
            /\ \E o \in Outcomes :
                LET call == [NoCall EXCEPT
                                !.invoked = <<instance>>,
                                !.trapped = IF o.threw /\ isTrap(o.message) THEN {0} ELSE {},
                                !.rejected = o.threw,
                                !.error = o.message,
                                !.thrown = IF o.threw THEN {o.message} ELSE {}]
                IN  IF ~o.threw
                    THEN /\ stats' = [stats EXCEPT !.totalFrames = @ + 1]
                         /\ reply' = Resolved(call, [success |-> TRUE], {})
                         /\ UNCHANGED pending
                    ELSE IF isTrap(o.message)
                    THEN /\ stats' = [stats EXCEPT !.totalFrames = @ + 1, !.crashCount = @ + 1]
                         /\ pending' = Append(pending, call)
                         /\ reply' = NoReply
                    ELSE /\ stats' = [stats EXCEPT !.totalFrames = @ + 1]
                         /\ reply' = Rejected(call, o.message)
                         /\ UNCHANGED pending
    /\ UNCHANGED <<trappedInstances, failedRebuilds, shimVars, runtime, boot, compiledModule, instance, instancePool, instanceHealth,
                   activeIndex, rebuilds, reloads, created, reloadCalls>>

\* processFrame after `await createInstance()`: the new instance is in place
\* and the trap is rethrown; or createInstance rejected and processFrame
\* rejects with that error
RecoveryDoneSingle ==
    /\ runtime = "single"
    /\ pending # <<>>
    /\ pending' = Tail(pending)
    /\ \E ok \in BOOLEAN :
        IF ok
        THEN /\ created' = created + 1
             /\ instance' = created + 1
             /\ reply' = Rejected(Head(pending), Head(pending).error)
        ELSE /\ reply' = Rejected(Head(pending), InstantiateMessage)
             /\ UNCHANGED <<created, instance>>
    /\ UNCHANGED <<trappedInstances, failedRebuilds, shimVars, runtime, boot, compiledModule, instancePool, instanceHealth, activeIndex,
                   stats, rebuilds, reloads, reloadCalls>>

\* reload() up to the await inside createInstance
ReloadCallSingle ==
    /\ runtime = "single"
    /\ boot = "ready"
    /\ reloadCalls < MaxReloads
    /\ reloadCalls' = reloadCalls + 1
    /\ reloads' = Append(reloads, 0)
    /\ reply' = NoReply
    /\ UNCHANGED <<trappedInstances, failedRebuilds, shimVars, runtime, boot, compiledModule, instance, instancePool, instanceHealth,
                   activeIndex, stats, pending, rebuilds, created>>

\* createInstance of a reload assigns the new instance
ReloadDoneSingle ==
    /\ runtime = "single"
    /\ reloads # <<>>
    /\ reloads' = Tail(reloads)
    /\ \E ok \in BOOLEAN :
        IF ok
        THEN created' = created + 1 /\ instance' = created + 1
        ELSE UNCHANGED <<created, instance>>
    /\ reply' = NoReply
    /\ UNCHANGED <<trappedInstances, failedRebuilds, shimVars, runtime, boot, compiledModule, instancePool, instanceHealth, activeIndex,
                   stats, pending, rebuilds, reloadCalls>>

\* ------------------------------------------------------------------------
\* Specification
\* ------------------------------------------------------------------------
Next ==
    \/ CompileModule
    \/ InitializePool
    \/ ProcessFrameCall
    \/ ProcessFrameReturn
    \/ \E i \in Slots : RebuildInstanceDone(i)
    \/ \E i \in Slots : ReloadCall(i)
    \/ \E k \in 1..MaxReloads : ReloadDone(k)
    \/ ProcessFrameHotStandby
    \/ \E i \in 0..1 : RebuildInstanceDoneHotStandby(i)
    \/ ReloadCallHotStandby
    \/ ReloadDoneHotStandby
    \/ ProcessFrameSingle
    \/ RecoveryDoneSingle
    \/ ReloadCallSingle
    \/ ReloadDoneSingle

Spec == Init /\ [][Next]_vars

\* ------------------------------------------------------------------------
\* An invocation that does not return
\* ------------------------------------------------------------------------
\* instance.exports.run(frame) is a synchronous call: while it runs, the
\* thread is inside it and no other host code runs.
ThreadHung == \E k \in DOMAIN pending : pending[k].hung # {}

\* processFrame of the 2oo3 runtime on a frame for which the call into
\* instance h does not return: the frame is counted, the callbacks of the
\* slots before h have run (n of them caught a trap), and the call stays
\* inside the callback of slot h
ProcessFrameHang ==
    /\ runtime = "2oo3"
    /\ ~ThreadHung
    /\ \A i \in Slots : instancePool[i] # NullRef
    /\ stats.totalFrames < MaxFrames
    /\ Len(pending) < MaxOverlap
    /\ \E h \in Slots : \E n \in 0..h :
        /\ pending' = Append(pending, [NoCall EXCEPT !.invoked = instancePool,
                                                      !.staleInvoked = Slots \ HealthySlots,
                                                      !.hung = {h}])
        /\ stats' = [stats EXCEPT !.totalFrames = @ + 1, !.crashCount = @ + n]
    /\ reply' = NoReply
    /\ UNCHANGED <<trappedInstances, failedRebuilds, shimVars, runtime, boot, compiledModule, instance, instancePool, instanceHealth,
                   activeIndex, rebuilds, reloads, created, reloadCalls>>

\* the host with invocations that may hang; the event loop resumes a call
\* suspended at its await once the promises it waits for have settled
NextLive ==
    \/ ~ThreadHung /\ CompileModule
    \/ ~ThreadHung /\ InitializePool
    \/ ~ThreadHung /\ ProcessFrameCall
    \/ ~ThreadHung /\ ProcessFrameReturn
    \/ ~ThreadHung /\ \E i \in Slots : RebuildInstanceDone(i)
    \/ ~ThreadHung /\ \E i \in Slots : ReloadCall(i)
    \/ ~ThreadHung /\ \E k \in 1..MaxReloads : ReloadDone(k)
    \/ ~ThreadHung /\ ProcessFrameHotStandby
    \/ ~ThreadHung /\ \E i \in 0..1 : RebuildInstanceDoneHotStandby(i)
    \/ ~ThreadHung /\ ReloadCallHotStandby
    \/ ~ThreadHung /\ ReloadDoneHotStandby
    \/ ~ThreadHung /\ ProcessFrameSingle
    \/ ~ThreadHung /\ RecoveryDoneSingle
    \/ ~ThreadHung /\ ReloadCallSingle
    \/ ~ThreadHung /\ ReloadDoneSingle
    \/ ProcessFrameHang

LiveSpec == Init /\ [][NextLive]_vars /\ WF_vars(~ThreadHung /\ ProcessFrameReturn)

\* ------------------------------------------------------------------------
\* Frames: the bytes of a Uint8Array or Buffer, indexed from 0
\* ------------------------------------------------------------------------
Uint8Array(len) == [i \in 0..(len - 1) |-> 0]
FrameLength(frame) == Cardinality(DOMAIN frame)

\* new Uint8Array([...]) and Buffer.from([...]) of a literal list of bytes
Bytes(list) == [i \in 0..(Len(list) - 1) |-> list[i + 1] % 256]

\* DataView.setUint16(offset, value): the value modulo 2^16, big-endian
setUint16(frame, offset, value) ==
    [frame EXCEPT ![offset] = (value % 65536) \div 256,
                  ![offset + 1] = (value % 65536) % 256]

\* the loop `view.setUint16(9 + i * 2, registers[i])` from index i on: byte k
\* of the frame is written by the iteration for register (k - 9) \div 2, as
\* the first or the second byte of setUint16
SetRegisters(frame, registers, i) ==
    [k \in DOMAIN frame |->
        IF k < 9 + i * 2 \/ (k - 9) \div 2 >= Len(registers) THEN frame[k]
        ELSE setUint16(frame, 9 + ((k - 9) \div 2) * 2, registers[(k - 9) \div 2 + 1])[k]]

\* buildReadResponse, the version that writes through a DataView
buildReadResponseDataView(unitId, transactionId, registers) ==
    LET byteCount == Len(registers) * 2
        length == 3 + byteCount
        frame0 == Uint8Array(7 + 2 + byteCount)
        frame1 == setUint16(frame0, 0, transactionId)
        frame2 == setUint16(frame1, 2, 0)
        frame3 == setUint16(frame2, 4, length)
        frame4 == [frame3 EXCEPT ![6] = unitId % 256]
        frame5 == [frame4 EXCEPT ![7] = 3]
        frame6 == [frame5 EXCEPT ![8] = byteCount % 256]
    IN  SetRegisters(frame6, registers, 0)

\* (x >> 8) & 0xFF and x & 0xFF, for x from 0 to 2^31 - 1
HighByte(x) == (x \div 256) % 256
LowByte(x) == x % 256

\* a register loop that stores the low byte first
StoreRegistersLittleEndian(frame, registers, i) ==
    [k \in DOMAIN frame |->
        IF k < 9 + i * 2 \/ (k - 9) \div 2 >= Len(registers) THEN frame[k]
        ELSE IF k = 9 + ((k - 9) \div 2) * 2
        THEN LowByte(registers[(k - 9) \div 2 + 1])
        ELSE HighByte(registers[(k - 9) \div 2 + 1])]

\* the loop storing registers[i] at 9 + i * 2 and 9 + i * 2 + 1, from i on:
\* byte k of the frame is written by the iteration for register (k - 9) \div 2
StoreRegisters(frame, registers, i) ==
    [k \in DOMAIN frame |->
        IF k < 9 + i * 2 \/ (k - 9) \div 2 >= Len(registers) THEN frame[k]
        ELSE IF k = 9 + ((k - 9) \div 2) * 2
        THEN HighByte(registers[(k - 9) \div 2 + 1])
        ELSE LowByte(registers[(k - 9) \div 2 + 1])]

\* buildReadResponse, the version that stores byte by byte
buildReadResponse(unitId, transactionId, registers) ==
    LET byteCount == Len(registers) * 2
        length == 1 + 1 + 1 + byteCount
        totalLength == 6 + length
        frame0 == Uint8Array(totalLength)
        frame1 == [frame0 EXCEPT ![0] = HighByte(transactionId),
                                 ![1] = LowByte(transactionId),
                                 ![2] = 0,
                                 ![3] = 0,
                                 ![4] = HighByte(length),
                                 ![5] = LowByte(length),
                                 ![6] = unitId % 256,
                                 ![7] = 3,
                                 ![8] = byteCount % 256]
    IN  StoreRegisters(frame1, registers, 0)

\* ------------------------------------------------------------------------
\* The chaos attack generators
\* ------------------------------------------------------------------------
\* Math.floor(Math.random() * n)
RandomIndex(n) == 0..(n - 1)
\* the value crypto.randomBytes fills a buffer with
RandomFills == {255}
RandomGarbageLimit == 300

\* crypto.randomBytes(len), every byte the same
RandomBytes(len) == {[i \in 0..(len - 1) |-> fill] : fill \in RandomFills}

\* chaos-attacks.js: the frames each generator of CHAOS_ATTACKS may return
AttackNames ==
    {"bufferOverflow", "offByOne", "illegalFunction", "truncatedHeader", "wrongProtocol",
     "zeroLength", "massiveLength", "randomGarbage"}
CHAOS_ATTACKS(name) ==
    CASE name = "bufferOverflow" -> {Bytes(<<0, 1, 0, 0, 0, 255, 1, 3>>)}
      [] name = "offByOne" -> {Bytes(<<0, 1, 0, 0, 0, 6, 1, 3, 255, 255, 0, 125>>)}
      [] name = "illegalFunction" -> {Bytes(<<0, 1, 0, 0, 0, 2, 1, 255>>)}
      [] name = "truncatedHeader" -> {Bytes(<<0, 1, 0>>)}
      [] name = "wrongProtocol" -> {Bytes(<<0, 1, 222, 173, 0, 6, 1, 3, 0, 0, 0, 10>>)}
      [] name = "zeroLength" -> {Bytes(<<0, 1, 0, 0, 0, 0, 1>>)}
      [] name = "massiveLength" -> {Bytes(<<0, 1, 0, 0, 255, 255, 1, 3>>)}
      [] name = "randomGarbage" ->
            UNION {RandomBytes(len) : len \in RandomIndex(RandomGarbageLimit)}

\* modbus-source.js, direct version: its own table of generators
SourceAttackNames ==
    {"bufferOverflow", "offByOne", "illegalFunction", "truncatedHeader", "wrongProtocol",
     "randomGarbage"}
SourceAttacks(name) == CHAOS_ATTACKS(name)

\* ------------------------------------------------------------------------
\* modbus-source.js
\* ------------------------------------------------------------------------
\* a frame as a JavaScript value: a Uint8Array or a plain array of numbers
TypedFrame(bytes) == [type |-> "Uint8Array", bytes |-> bytes]
PlainFrame(bytes) == [type |-> "Array", bytes |-> bytes]
\* Array.from(frame)
ArrayFrom(frame) == PlainFrame(frame.bytes)
\* frame instanceof Uint8Array ? frame : new Uint8Array(frame)
AsUint8Array(frame) ==
    IF frame.type = "Uint8Array" THEN frame
    ELSE TypedFrame([i \in DOMAIN frame.bytes |-> frame.bytes[i] % 256])

\* what receiveFrame hands back for a frame, in either version
ReturnFrame(frame) ==
    IF sourceVersion = "result" THEN [tag |-> "ok", val |-> ArrayFrom(frame)]
    ELSE AsUint8Array(frame)

\* the frame generated when nothing is queued
SampleFrame ==
    IF sourceVersion = "result"
    THEN buildReadResponseDataView(1, 1, <<1000, 2000, 3000, 4000, 5000>>)
    ELSE buildReadResponse(1, 1, <<1000, 2000, 3000, 4000, 5000>>)

MaxQueued == 2
\* the frames callers queue
QueueInputs ==
    {TypedFrame(buildReadResponse(1, 2, <<1000>>)),
     PlainFrame(Bytes(<<0, 3, 0>>))}

queueFrame(frame) ==
    /\ Len(queuedFrames) < MaxQueued
    /\ frameQueue' = Append(frameQueue, frame)
    /\ queuedFrames' = Append(queuedFrames, frame)
    /\ received' = NoFrame
    /\ UNCHANGED <<sourceVersion, chaosMode, dequeuedFrames, gatewayVars, sinkVars, attackVars, builderVars>>

setChaosMode(enabled) ==
    /\ chaosMode' = enabled
    /\ received' = NoFrame
    /\ UNCHANGED <<sourceVersion, frameQueue, queuedFrames, dequeuedFrames, gatewayVars, sinkVars, attackVars, builderVars>>

\* a receiveFrame that takes the newest frame of the queue
TakenNewest(queue) == [frame |-> queue[Len(queue)], rest |-> SubSeq(queue, 1, Len(queue) - 1)]

\* frameQueue.shift(): the frame taken and the queue left
Taken(queue) == [frame |-> Head(queue), rest |-> Tail(queue)]

\* receiveFrame(); `inject` is the outcome of chaosMode && Math.random() < 0.3
receiveFrame ==
    /\ \E inject \in {FALSE, chaosMode} :
        IF inject
        THEN /\ \E name \in (IF sourceVersion = "result" THEN AttackNames ELSE SourceAttackNames) :
                \E malformedFrame \in (IF sourceVersion = "result" THEN CHAOS_ATTACKS(name)
                                       ELSE SourceAttacks(name)) :
                    received' = [from |-> "chaos",
                                 value |-> IF sourceVersion = "result"
                                           THEN [tag |-> "ok", val |-> PlainFrame(malformedFrame)]
                                           ELSE TypedFrame(malformedFrame)]
             /\ UNCHANGED <<frameQueue, dequeuedFrames>>
        ELSE IF Len(frameQueue) > 0
        THEN /\ frameQueue' = Taken(frameQueue).rest
             /\ dequeuedFrames' = Append(dequeuedFrames, Taken(frameQueue).frame)
             /\ received' = [from |-> "queue", value |-> ReturnFrame(Taken(frameQueue).frame)]
        ELSE /\ received' = [from |-> "sample", value |-> ReturnFrame(TypedFrame(SampleFrame))]
             /\ UNCHANGED <<frameQueue, dequeuedFrames>>
    /\ UNCHANGED <<sourceVersion, chaosMode, queuedFrames, gatewayVars, sinkVars, attackVars, builderVars>>

\* the runtime as loaded and left alone
GatewayLoaded ==
    /\ runtime = "single"
    /\ boot = "loaded"
    /\ compiledModule = NullRef
    /\ instance = NullRef
    /\ instancePool = [i \in PoolSlots(runtime) |-> NullRef]
    /\ instanceHealth = [i \in PoolSlots(runtime) |-> TRUE]
    /\ activeIndex = 0
    /\ stats = InitialStats(runtime)
    /\ pending = <<>>
    /\ rebuilds = [i \in PoolSlots(runtime) |-> 0]
    /\ reloads = <<>>
    /\ created = 0
    /\ reloadCalls = 0
    /\ reply = NoReply
    /\ failedRebuilds = {}
    /\ trappedInstances = {}

SourceInit ==
    /\ GatewayLoaded
    /\ sourceVersion \in {"result", "direct"}
    /\ SourceLoaded
    /\ SinkLoaded
    /\ attack = NoAttack
    /\ BuilderIdle

SourceNext ==
    \/ \E frame \in QueueInputs : queueFrame(frame)
    \/ \E enabled \in BOOLEAN : setChaosMode(enabled)
    \/ receiveFrame

SourceSpec == SourceInit /\ [][SourceNext]_vars

\* ------------------------------------------------------------------------
\* mqtt-sink.js
\* ------------------------------------------------------------------------
MaxPublishes == 2
\* what the guest publishes, and the callbacks a host registers
Topics == {"plant/line1", "plant/line2"}
PayloadTexts == {"{}"}
QosLevels == {0, 1}
Callbacks == {1, 2}
\* new Date().toISOString()
Timestamps == {"2024-01-01T00:00:00.000Z", "2024-01-01T00:00:01.000Z"}

onPublish(callback) ==
    /\ publishCallback' = callback
    /\ sinkReturn' = [op |-> "onPublish"]
    /\ UNCHANGED <<publishedMessages, messageObjects, callbackCalls, snapshot, sourceVars,
                   gatewayVars, attackVars, builderVars>>

\* [...publishedMessages]: a new array holding the same message objects
getPublishedMessages ==
    /\ snapshot' = [taken |-> TRUE, array |-> publishedMessages]
    /\ sinkReturn' = [op |-> "getPublishedMessages"]
    /\ UNCHANGED <<publishedMessages, publishCallback, messageObjects, callbackCalls,
                   sourceVars, gatewayVars, attackVars, builderVars>>

clearMessages ==
    /\ publishedMessages' = <<>>
    /\ sinkReturn' = [op |-> "clearMessages"]
    /\ UNCHANGED <<publishCallback, messageObjects, callbackCalls, snapshot, sourceVars,
                   gatewayVars, attackVars, builderVars>>

\* a publish that calls the callback before it stores the message
publishCallbackFirst(topic, payload, qos) ==
    /\ Len(messageObjects) < MaxPublishes
    /\ \E timestamp \in Timestamps :
        LET message == [topic |-> topic, payload |-> payload, qos |-> qos,
                        timestamp |-> timestamp]
        IN  /\ messageObjects' = Append(messageObjects, message)
            /\ publishedMessages' = Append(publishedMessages, Len(messageObjects) + 1)
            /\ callbackCalls' =
                 IF publishCallback # NullRef
                 THEN Append(callbackCalls,
                             [callback |-> publishCallback,
                              arguments |-> <<topic, payload, qos>>,
                              stored |-> publishedMessages])
                 ELSE callbackCalls
    /\ sinkReturn' = [op |-> "publish", arguments |-> <<topic, payload, qos>>,
                      ret |-> [tag |-> "ok", val |-> JSUndefined]]
    /\ UNCHANGED <<publishCallback, snapshot, sourceVars, gatewayVars, attackVars, builderVars>>

\* publish(topic, payload, qos): the message is pushed, then the callback, if
\* one is registered, is called and returns
publish(topic, payload, qos) ==
    /\ Len(messageObjects) < MaxPublishes
    /\ \E timestamp \in Timestamps :
        LET message == [topic |-> topic, payload |-> payload, qos |-> qos,
                        timestamp |-> timestamp]
        IN  /\ messageObjects' = Append(messageObjects, message)
            /\ publishedMessages' = Append(publishedMessages, Len(messageObjects) + 1)
            /\ callbackCalls' =
                 IF publishCallback # NullRef
                 THEN Append(callbackCalls,
                             [callback |-> publishCallback,
                              arguments |-> <<topic, payload, qos>>,
                              stored |-> publishedMessages'])
                 ELSE callbackCalls
    /\ sinkReturn' = [op |-> "publish", arguments |-> <<topic, payload, qos>>,
                      ret |-> [tag |-> "ok", val |-> JSUndefined]]
    /\ UNCHANGED <<publishCallback, snapshot, sourceVars, gatewayVars, attackVars, builderVars>>

\* the caller changes the array it was given: drops its last element, or
\* pushes a reference of its own (NullRef stands for it)
MutateSnapshot ==
    /\ snapshot.taken
    /\ \/ /\ snapshot.array # <<>>
          /\ snapshot' = [snapshot EXCEPT !.array = SubSeq(@, 1, Len(@) - 1)]
       \/ /\ Len(snapshot.array) <= Len(publishedMessages)
          /\ snapshot' = [snapshot EXCEPT !.array = Append(@, NullRef)]
    /\ sinkReturn' = [op |-> "mutate"]
    /\ UNCHANGED <<publishedMessages, publishCallback, messageObjects, callbackCalls,
                   sourceVars, gatewayVars, attackVars, builderVars>>

\* the caller assigns to a field of a message it reached through the array
MutateMessage ==
    /\ snapshot.taken
    /\ \E k \in DOMAIN snapshot.array :
        /\ snapshot.array[k] # NullRef
        /\ messageObjects[snapshot.array[k]].payload # "changed"
        /\ messageObjects' = [messageObjects EXCEPT ![snapshot.array[k]].payload = "changed"]
    /\ sinkReturn' = [op |-> "mutateMessage"]
    /\ UNCHANGED <<publishedMessages, publishCallback, callbackCalls, snapshot, sourceVars,
                   gatewayVars, attackVars, builderVars>>

SinkInit ==
    /\ GatewayLoaded
    /\ sourceVersion = "direct"
    /\ SourceLoaded
    /\ SinkLoaded
    /\ attack = NoAttack
    /\ BuilderIdle

SinkNext ==
    \/ \E callback \in Callbacks : onPublish(callback)
    \/ getPublishedMessages
    \/ clearMessages
    \/ \E topic \in Topics, payload \in PayloadTexts, qos \in QosLevels :
          publish(topic, payload, qos)
    \/ MutateSnapshot
    \/ MutateMessage

SinkSpec == SinkInit /\ [][SinkNext]_vars

\* ------------------------------------------------------------------------
\* chaos-attacks.js: calls of the generators
\* ------------------------------------------------------------------------
\* Object.keys(CHAOS_ATTACKS), in the order the generators are written
getAttackNames ==
    <<"bufferOverflow", "offByOne", "illegalFunction", "truncatedHeader", "wrongProtocol",
      "zeroLength", "massiveLength", "randomGarbage">>

\* CHAOS_ATTACKS[name]()
CallAttack(name) ==
    /\ \E frame \in CHAOS_ATTACKS(name) :
        attack' = [name |-> name, frame |-> frame, returned |-> frame]
    /\ UNCHANGED <<gatewayVars, sourceVars, sinkVars, builderVars>>

\* getRandomAttack()
getRandomAttack ==
    /\ \E k \in RandomIndex(Len(getAttackNames)) :
        \E frame \in CHAOS_ATTACKS(getAttackNames[k + 1]) :
            attack' = [name |-> getAttackNames[k + 1], frame |-> frame,
                       returned |-> [name |-> getAttackNames[k + 1], frame |-> frame]]
    /\ UNCHANGED <<gatewayVars, sourceVars, sinkVars, builderVars>>

AttackInit ==
    /\ GatewayLoaded
    /\ sourceVersion = "direct"
    /\ SourceLoaded
    /\ SinkLoaded
    /\ attack = NoAttack
    /\ BuilderIdle

AttackNext ==
    \/ \E name \in AttackNames : CallAttack(name)
    \/ getRandomAttack

AttackSpec == AttackInit /\ [][AttackNext]_vars

\* ------------------------------------------------------------------------
\* buildReadResponse: calls of the two versions on the same arguments
\* ------------------------------------------------------------------------
MaxRegisters == 127
\* the arguments tried: registers[i] = (first + i * step) modulo 2^16
UnitIds == {1, 255}
TransactionIds == {1, 258, 65535}
RegisterRuns == {<<0, 0>>, <<65535, 0>>, <<1000, 1000>>, <<255, 257>>}
Registers(n, run) == [i \in 1..n |-> (run[1] + (i - 1) * run[2]) % 65536]

CallBuildReadResponseDataView ==
    /\ ~response.dataView.built
    /\ response' = [response EXCEPT !.dataView =
                      [built |-> TRUE,
                       frame |-> buildReadResponseDataView(request.unitId,
                                                           request.transactionId,
                                                           request.registers)]]
    /\ UNCHANGED <<request, gatewayVars, sourceVars, sinkVars, attackVars>>

CallBuildReadResponse ==
    /\ ~response.bytes.built
    /\ response' = [response EXCEPT !.bytes =
                      [built |-> TRUE,
                       frame |-> buildReadResponse(request.unitId, request.transactionId,
                                                   request.registers)]]
    /\ UNCHANGED <<request, gatewayVars, sourceVars, sinkVars, attackVars>>

BuilderInit ==
    /\ GatewayLoaded
    /\ sourceVersion = "direct"
    /\ SourceLoaded
    /\ SinkLoaded
    /\ attack = NoAttack
    /\ \E n \in 0..MaxRegisters, run \in RegisterRuns :
        \E unitId \in UnitIds, transactionId \in TransactionIds :
            request = [unitId |-> unitId, transactionId |-> transactionId,
                       registers |-> Registers(n, run)]
    /\ response = [dataView |-> NotBuilt, bytes |-> NotBuilt]

BuilderNext ==
    \/ CallBuildReadResponseDataView
    \/ CallBuildReadResponse

BuilderSpec == BuilderInit /\ [][BuilderNext]_vars

\* ------------------------------------------------------------------------
\* Properties
\* ------------------------------------------------------------------------
\* Equality of two outcomes is deep structural equality: same kind, same primitive, and
\* for objects the same keys with deeply equal values, whatever the order
\* the keys were inserted in.
DeepEqual(a, b) ==
    /\ a.kind = b.kind
    /\ IF a.kind = "object"
       THEN /\ {a.props[i].key : i \in DOMAIN a.props} = {b.props[j].key : j \in DOMAIN b.props}
            /\ \A i \in DOMAIN a.props : \A j \in DOMAIN b.props :
                   a.props[i].key = b.props[j].key => a.props[i].value = b.props[j].value
       ELSE a = b

\* a 2oo3 processFrame call returned an object in the latest step
Voted == runtime = "2oo3" /\ reply.settled = "resolved"
Result(i) == reply.call.results[i]
Trapped(i) == i \in reply.call.trapped
Others(d) == Slots \ {d}

\* slot d is the one dissenter: the other two returned deeply equal values
\* without trapping, and d trapped or returned a value not equal to theirs
OnlyDissenter(d) ==
    /\ \A a \in Others(d) : ~Trapped(a)
    /\ \A a, b \in Others(d) : DeepEqual(Result(a), Result(b))
    /\ \A a \in Others(d) : ~DeepEqual(Result(d), Result(a))

\* no two of the three outcomes are equal
AllDiffer == \A a, b \in Slots : a # b => ~DeepEqual(Result(a), Result(b))

Irreconcilable ==
    /\ reply.ret.success = FALSE
    /\ reply.ret.vote = "0/3"
    /\ "result" \notin DOMAIN reply.ret
    /\ "faultyInstance" \notin DOMAIN reply.ret

\* C1: when exactly one instance's outcome differs from the other two, the
\* vote is a 2/3 majority, the accepted result is the value the two agreeing
\* instances returned, and the faulty instance reported is the dissenter.
C1_MajorityNamesDissenter ==
    Voted => \A d \in Slots :
        OnlyDissenter(d) =>
            /\ reply.ret.success
            /\ reply.ret.vote = "2/3"
            /\ "faultyInstance" \in DOMAIN reply.ret
            /\ reply.ret.faultyInstance = d
            /\ \A a \in Others(d) : DeepEqual(reply.ret.result, Result(a))

\* C2: when all three instances return equal values and none traps, the vote
\* is unanimous 3/3, the accepted result is that value, no instance is
\* reported faulty and no rebuild is started.
C2_UnanimousWhenEqual ==
    Voted =>
        ((/\ reply.call.trapped = {}
          /\ \A a, b \in Slots : DeepEqual(Result(a), Result(b)))
         => /\ reply.ret.success
            /\ reply.ret.vote = "3/3"
            /\ DeepEqual(reply.ret.result, Result(0))
            /\ "faultyInstance" \notin DOMAIN reply.ret
            /\ reply.rebuildStarted = {})

\* C3: when no two of the three outcomes are equal, the vote is
\* irreconcilable (0/3), no result is accepted, and processFrame returns
\* success = false as a value: it does not reject.
C3_SplitWhenAllDiffer ==
    (runtime = "2oo3" /\ reply.settled # "none" /\ ~reply.call.rejected
     /\ reply.call.results # <<>>)
        => (AllDiffer => reply.settled = "resolved" /\ Irreconcilable)

C3_Witness ==
    Voted /\ AllDiffer /\ reply.call.trapped = {} /\ reply.ret.vote = "0/3"

\* C4: after a single-slot fault was detected and the pool is whole again
\* (every slot healthy, no rebuild under way), a frame on which the three
\* instances behave identically returns success with vote 3/3 and names no
\* faulty instance.
C4_UnanimousAfterRecovery ==
    (/\ Voted
     /\ reply.call.quorumRestored
     /\ reply.call.trapped = {}
     /\ \A a, b \in Slots : Result(a) = Result(b))
        => /\ reply.ret.success
           /\ reply.ret.vote = "3/3"
           /\ "faultyInstance" \notin DOMAIN reply.ret

C4_Witness ==
    /\ Voted
    /\ reply.call.quorumRestored
    /\ reloadCalls = 0
    /\ reply.call.trapped = {}
    /\ \A a, b \in Slots : Result(a) = Result(b)
    /\ reply.ret.vote = "3/3"

\* C5: a processFrame call whose vote names instance i faulty starts a
\* rebuild of slot i before it returns, leaving slot i not healthy with its
\* instance still in place; when the rebuild's createInstance resolves the
\* slot holds the newly created instance and is healthy; and a slot's health
\* only ever comes back together with a newly created instance.
C5_RebuildRestoresSlot ==
    [][runtime = "2oo3" =>
        /\ (/\ pending' # pending
            /\ reply'.settled = "resolved"
            /\ "faultyInstance" \in DOMAIN reply'.ret)
           => LET i == reply'.ret.faultyInstance
              IN  /\ rebuilds'[i] = rebuilds[i] + 1
                  /\ ~instanceHealth'[i]
                  /\ instancePool'[i] = instancePool[i]
        /\ \A i \in Slots :
            /\ (rebuilds'[i] < rebuilds[i] /\ created' # created)
               => (instanceHealth'[i] /\ instancePool'[i] = created' /\ created' = created + 1)
            /\ (~instanceHealth[i] /\ instanceHealth'[i])
               => (instancePool'[i] = created' /\ created' = created + 1)
      ]_vars

C5_Witness ==
    /\ runtime = "2oo3"
    /\ reloadCalls = 0
    /\ stats.majorityVotes > 0
    /\ \E i \in Slots :
        /\ stats.lastFaultyInstance = i
        /\ rebuilds[i] = 0
        /\ instanceHealth[i]
        /\ instancePool[i] = created
        /\ created > Cardinality(Slots)

\* C6: processFrame does not wait for a rebuild: in the 2oo3 and hot-standby
\* runtimes the step that starts the rebuild of a slot is the step in which
\* the call returns its result, the rebuild still under way.
C6_ReturnDoesNotAwaitRebuild ==
    [][\A i \in DOMAIN rebuilds :
          rebuilds'[i] > rebuilds[i]
              => reply'.settled = "resolved" /\ i \in reply'.rebuildStarted
      ]_vars

C6_Witness ==
    /\ runtime = "2oo3"
    /\ reply.settled = "resolved"
    /\ \E i \in reply.rebuildStarted : rebuilds[i] > 0 /\ ~instanceHealth[i]

\* C7: in every runtime a trap inside an instance is reported as data:
\* processFrame never rejects with an error the trap test accepts.
C7_TrapNeverThrown ==
    reply.settled = "rejected" => ~isTrap(reply.error)

\* C8: once a slot is marked not healthy, no processFrame call invokes the
\* instance in it until the slot has been given a new instance.
C8_StaleNeverInvoked ==
    runtime = "2oo3" => \A k \in DOMAIN pending : pending[k].staleInvoked = {}

\* C9: every instance that trapped on a frame has its slot forwarded to
\* recovery by the call that processed the frame, whatever the vote.
C9_TrappedAlwaysRebuilt ==
    Voted => reply.call.trapped \subseteq reply.rebuildStarted

C11_RefusedBelowQuorum ==
    runtime = "2oo3" =>
        \A k \in DOMAIN pending :
            Cardinality(Slots \ pending[k].staleInvoked) >= 2

C13_RetriedOnStandby ==
    (/\ runtime = "hot-standby"
     /\ reply.settled # "none"
     /\ reply.call.trapped # {})
        => /\ reply.settled = "resolved"
           /\ reply.ret.success
           /\ \A a \in reply.call.trapped : Standby(a) \in DOMAIN reply.call.invoked

\* C14: in the single-instance runtime a trap counts one crash, the call
\* ends reporting failure with no result, and no later processFrame call is
\* dispatched to the instance that trapped: a call is dispatched only when no
\* call that trapped on the current instance is still waiting for its
\* replacement.
C14_TrappedInstanceReplacedFirst ==
    [][runtime = "single" =>
        /\ Len(pending') > Len(pending)
              => stats'.crashCount = stats.crashCount + 1
        /\ Len(pending') < Len(pending)
              => reply'.settled = "rejected"
        /\ stats'.totalFrames > stats.totalFrames
              => \A k \in DOMAIN pending : pending[k].invoked # <<instance>>
      ]_vars

\* C15: a 2oo3 processFrame call in which an invocation hangs eventually
\* returns: the invocation is timed out and the call leaves the invocation.
C15_HungCallReturns ==
    (runtime = "2oo3" /\ ThreadHung) ~> ~ThreadHung

\* C16: after the instantiation of a background rebuild of slot i has failed,
\* slot i is not healthy in every state until a reload of slot i succeeds, and
\* getStats keeps showing the failure as fewer than three healthy instances.
\* Stated for the runs in which reload is never called: there the slot stays
\* not healthy for good.
C16_FailedRebuildStaysFaulted ==
    (runtime = "2oo3" /\ reloadCalls = 0) =>
        \A i \in failedRebuilds :
            ~instanceHealth[i] /\ Cardinality(HealthySlots) < 3

\* C17: a failed instantiation during the background recovery of a slot is
\* tried again by the recovery task: after the only rebuild started so far
\* has met an instantiation failure, the recovery of that slot is still under
\* way or has ended with the slot healthy.
C17_FailedRebuildRetried ==
    (runtime = "2oo3" /\ stats.majorityVotes = 1 /\ reloadCalls = 0) =>
        \A i \in failedRebuilds : instanceHealth[i] \/ rebuilds[i] > 0

\* C18: once createGateway has completed, no processFrame call, reload or
\* background rebuild compiles the module again: the cached module stays the
\* one createGateway compiled, and every instance created later is
\* instantiated from it.
C18_CompiledOnce ==
    [][boot = "ready" =>
        /\ compiledModule' = compiledModule
        /\ compiledModule # NullRef
        /\ boot' = "ready"
      ]_vars

C18_Witness ==
    /\ runtime = "2oo3"
    /\ boot = "ready"
    /\ compiledModule = 1
    /\ stats.totalFrames = MaxFrames
    /\ stats.majorityVotes > 0
    /\ reloadCalls > 0
    /\ reloads = <<>>
    /\ \A i \in Slots : rebuilds[i] = 0
    /\ created >= Cardinality(Slots) + 2

\* what processFrame returns for three results on a pool just created
VoteOutcome(results) ==
    HandleVote(vote(results, InitialStats("2oo3")).voteResult).ret

Counters(rt) == DOMAIN InitialStats(rt) \ {"lastFaultyInstance"}

\* C20: no counter of the statistics ever decreases; a processFrame call on
\* an initialized gateway adds exactly 1 to totalFrames and adds to crashCount
\* exactly the number of instance invocations of that call that trapped; no
\* other step changes either.
C20_CountersMonotonic ==
    [][LET dispatched ==
               IF Len(pending') > Len(pending)
               THEN {pending'[Len(pending')]}
               ELSE IF /\ runtime # "2oo3"
                       /\ Len(pending') = Len(pending)
                       /\ reply'.settled # "none"
                       /\ DOMAIN reply'.call.invoked # {}
               THEN {reply'.call}
               ELSE {}
       IN  /\ \A c \in Counters(runtime) : stats'[c] >= stats[c]
           /\ \A call \in dispatched :
                 /\ stats'.totalFrames = stats.totalFrames + 1
                 /\ stats'.crashCount = stats.crashCount + Cardinality(call.trapped)
           /\ dispatched = {}
                 => (stats'.totalFrames = stats.totalFrames
                     /\ stats'.crashCount = stats.crashCount)
      ]_vars

\* a 2oo3 call in which two instances trapped has been counted
C20_Witness ==
    /\ runtime = "2oo3"
    /\ pending # <<>>
    /\ Cardinality(pending[Len(pending)].trapped) = 2
    /\ stats.totalFrames = 2
    /\ stats.crashCount >= 2
    /\ stats.voteCount = 1

\* C21: with two processFrame calls overlapping on the 2oo3 pool, a call that
\* starts leaves the outcomes of the suspended calls as they are and counts
\* one frame; a call that returns is the one suspended first, its vote is
\* taken over its own three outcomes, it returns the result of that vote, and
\* it counts one vote.
C21_OverlappingCallsKeepOwnVote ==
    [][runtime = "2oo3" =>
        /\ Len(pending') > Len(pending)
              => /\ pending' = Append(pending, pending'[Len(pending')])
                 /\ stats'.totalFrames = stats.totalFrames + 1
                 /\ stats'.voteCount = stats.voteCount
        /\ Len(pending') < Len(pending)
              => /\ pending' = Tail(pending)
                 /\ reply'.call = Head(pending)
                 /\ stats'.totalFrames = stats.totalFrames
                 /\ reply'.settled = "resolved"
                       => /\ reply'.ret = VoteOutcome(Head(pending).results)
                          /\ stats'.voteCount = stats.voteCount + 1
      ]_vars

\* the first of two overlapping calls has returned its own vote while the
\* second, whose outcomes give another vote, is still suspended
C21_Witness ==
    /\ Voted
    /\ Len(pending) = 1
    /\ ~pending[1].rejected
    /\ stats.totalFrames = 2
    /\ stats.voteCount = 1
    /\ reply.ret = VoteOutcome(reply.call.results)
    /\ reply.ret # VoteOutcome(pending[1].results)

\* C22: a 2oo3 call whose vote is 0/3 returns success = false with the
\* critical marker and no result; the frame is not dispatched again, no
\* rebuild is started, and the instance and the health flag of every slot are
\* as they were.
C22_SplitVoteChangesNothing ==
    [][(/\ runtime = "2oo3"
        /\ Len(pending') < Len(pending)
        /\ reply'.settled = "resolved"
        /\ "vote" \in DOMAIN reply'.ret
        /\ reply'.ret.vote = "0/3")
          => /\ reply'.ret = [success |-> FALSE, vote |-> "0/3", critical |-> TRUE]
             /\ reply'.rebuildStarted = {}
             /\ rebuilds' = rebuilds
             /\ instancePool' = instancePool
             /\ instanceHealth' = instanceHealth
             /\ pending' = Tail(pending)
             /\ stats'.totalFrames = stats.totalFrames
             /\ stats'.splitVotes = stats.splitVotes + 1
      ]_vars

C22_Witness ==
    /\ Voted
    /\ reply.ret = [success |-> FALSE, vote |-> "0/3", critical |-> TRUE]
    /\ Cardinality(reply.call.trapped) = 1
    /\ HealthySlots = Slots
    /\ \A i \in Slots : rebuilds[i] = 0 /\ instancePool[i] = i + 1
    /\ stats.splitVotes = 1

\* C23: whatever the frame, a processFrame call on a created gateway
\* resolves or rejects with an error the trap test accepts, never with another
\* error, and the gateway stays able to take further calls: no slot is
\* emptied.
C23_OnlyTrapErrorsEscape ==
    /\ (reply.settled = "rejected" /\ DOMAIN reply.call.invoked # {})
          => isTrap(reply.error)
    /\ boot = "ready"
          => /\ runtime = "single" => instance # NullRef
             /\ \A i \in PoolSlots(runtime) : instancePool[i] # NullRef

\* C24: in the hot-standby runtime the active slot never holds an instance
\* that has trapped, whatever traps and rebuilds came before.
C24_ActiveNeverTrapped ==
    (runtime = "hot-standby" /\ boot = "ready")
        => instancePool[activeIndex] \notin trappedInstances

\* the result of slot i is a settled outcome: the object the instance
\* returned, or the trap record of a trap it raised
SettledResult(i) ==
    /\ Result(i).kind = "object"
    /\ Trapped(i) <=> (\E k \in DOMAIN Result(i).props : Result(i).props[k].key = "trapped")

\* C25: a 2oo3 call takes its vote only once all three invocations for its
\* frame have settled: a call that returned voted on three settled outcomes,
\* and no call settles while an invocation has not returned.
C25_VoteAfterAllSettled ==
    runtime = "2oo3" =>
        /\ reply.settled = "resolved"
              => /\ reply.call.hung = {}
                 /\ DOMAIN reply.call.results = Slots
                 /\ \A i \in Slots : SettledResult(i)
        /\ ThreadHung => reply.settled = "none"

C25_Witness ==
    /\ Voted
    /\ reply.call.trapped = {1}
    /\ \A i \in Slots : SettledResult(i)
    /\ reply.ret.vote = "0/3"

\* the slots whose instance or health flag a step changes
ChangedSlots ==
    {j \in Slots : instancePool'[j] # instancePool[j] \/ instanceHealth'[j] # instanceHealth[j]}

\* C26: rebuilds of different slots may be under way together, and with
\* processFrame calls; the completion of a rebuild or reload of slot i
\* changes the instance and health of slot i only, and once no rebuild of a
\* slot is under way and none has failed, the slot is healthy, in whatever
\* order the rebuilds completed.
C26_RebuildsAreIndependent ==
    [][runtime = "2oo3" =>
        /\ \A i \in Slots : rebuilds'[i] < rebuilds[i] => ChangedSlots \subseteq {i}
        /\ Len(reloads') < Len(reloads)
              => \E k \in DOMAIN reloads : ChangedSlots \subseteq {reloads[k]}
        /\ \A i \in Slots :
              (rebuilds'[i] = 0 /\ i \notin failedRebuilds') => instanceHealth'[i]
      ]_vars

\* slots 1 and 2 were both being rebuilt while a third call was dispatched,
\* and both rebuilds have completed
C26_Witness ==
    /\ runtime = "2oo3"
    /\ reloadCalls = 0
    /\ failedRebuilds = {}
    /\ stats.totalFrames = MaxFrames + MaxDegradedFrames
    /\ \A i \in Slots : rebuilds[i] = 0
    /\ HealthySlots = Slots
    /\ instancePool[0] = 1
    /\ instancePool[1] > Cardinality(Slots)
    /\ instancePool[2] > Cardinality(Slots)

\* C27: once the 2oo3 pool is initialized every slot holds an instance in
\* every state; starting a rebuild marks the slot not healthy and leaves its
\* instance in place; and the instance of a slot changes only when a rebuild
\* or a reload of that slot completes with a newly created instance.
C27_OnlyReplaceChangesInstance ==
    [][(runtime = "2oo3" /\ boot = "ready") =>
        \A i \in Slots :
            /\ instancePool[i] # NullRef
            /\ instancePool'[i] # NullRef
            /\ rebuilds'[i] > rebuilds[i]
                  => (~instanceHealth'[i] /\ instancePool'[i] = instancePool[i])
            /\ instancePool'[i] # instancePool[i]
                  => /\ created' = created + 1
                     /\ instancePool'[i] = created'
                     /\ instanceHealth'[i]
                     /\ \/ rebuilds'[i] < rebuilds[i]
                        \/ /\ Len(reloads') < Len(reloads)
                           /\ \E k \in DOMAIN reloads : reloads[k] = i
      ]_vars

\* slot 1 has been replaced by a reload of slot 1 while slot 2, marked not
\* healthy, still holds its first instance
C27_Witness ==
    /\ runtime = "2oo3"
    /\ boot = "ready"
    /\ reloadCalls = 1
    /\ reloads = <<>>
    /\ instancePool[0] = 1
    /\ instancePool[1] = created
    /\ created = Cardinality(Slots) + 1
    /\ instancePool[2] = 3
    /\ ~instanceHealth[2]
    /\ rebuilds[2] = 1

\* C28: in the hot-standby runtime a frame goes to the active instance only;
\* when that instance does not trap, the standby is not invoked, activeIndex
\* stays, no rebuild starts, and a returned result is passed on as
\* {success: true, instance: activeIndex} without a look at the standby.
C28_OnlyActiveDispatched ==
    [][(/\ runtime = "hot-standby"
        /\ reply'.settled # "none"
        /\ reply'.call.invoked # <<>>
        /\ reply'.call.trapped = {})
          => /\ DOMAIN reply'.call.invoked = {activeIndex}
             /\ reply'.call.invoked[activeIndex] = instancePool[activeIndex]
             /\ activeIndex' = activeIndex
             /\ rebuilds' = rebuilds
             /\ reply'.rebuildStarted = {}
             /\ stats'.switchoverCount = stats.switchoverCount
             /\ stats'.crashCount = stats.crashCount
             /\ ~reply'.call.rejected
                   => /\ reply'.settled = "resolved"
                      /\ reply'.ret = [success |-> TRUE, instance |-> activeIndex]
      ]_vars

\* after a failover to instance 1, a frame is served by instance 1 alone
C28_Witness ==
    /\ runtime = "hot-standby"
    /\ reply.settled = "resolved"
    /\ reply.call.trapped = {}
    /\ DOMAIN reply.call.invoked = {1}
    /\ reply.ret = [success |-> TRUE, instance |-> 1]
    /\ activeIndex = 1
    /\ stats.switchoverCount = 1

\* C29: in the 2oo3 runtime a slot marked healthy has no background rebuild
\* in flight, also when two overlapping calls both name the slot as faulty or
\* when reload of the slot is called during its rebuild.
C29_HealthyMeansNoRebuild ==
    runtime = "2oo3" => \A i \in Slots : instanceHealth[i] => rebuilds[i] = 0

\* C30: when an instance invocation throws an error whose message has none
\* of 'wasm trap', 'unreachable', 'out of bounds', processFrame rejects with
\* that error; the error adds nothing to crashCount, no vote is taken, no
\* failover or rebuild starts, and activeIndex and slot health stay.
C30_OtherErrorsRethrown ==
    [][/\ (reply'.settled # "none" /\ \E m \in reply'.call.thrown : m \in OtherMessages)
          => /\ reply'.settled = "rejected"
             /\ reply'.error \in reply'.call.thrown
             /\ reply'.error \in OtherMessages
             /\ reply'.rebuildStarted = {}
             /\ stats'.crashCount = stats.crashCount
             /\ runtime = "2oo3" => stats' = stats
             /\ runtime = "hot-standby" => stats'.switchoverCount = stats.switchoverCount
             /\ activeIndex' = activeIndex
             /\ instanceHealth' = instanceHealth
             /\ instancePool' = instancePool
             /\ instance' = instance
             /\ rebuilds' = rebuilds
       /\ (runtime = "2oo3" /\ Len(pending') > Len(pending))
          => LET call == pending'[Len(pending')]
             IN  stats'.crashCount - stats.crashCount
                    = Cardinality({i \in Slots : i \in call.trapped})
      ]_vars

\* a 2oo3 call in which one instance trapped and another threw an error of
\* another sort has rejected with the latter, one crash counted
C30_Witness ==
    /\ runtime = "2oo3"
    /\ reply.settled = "rejected"
    /\ reply.call.thrown = {<<"unreachable">>, <<"divide", "by", "zero">>}
    /\ Cardinality(reply.call.trapped) = 1
    /\ stats.crashCount = 1
    /\ stats.voteCount = 0
    /\ \A i \in Slots : instanceHealth[i] /\ rebuilds[i] = 0

\* C31: in the 2oo3 runtime voteCount is the sum of unanimousVotes,
\* majorityVotes and splitVotes and is at most totalFrames in every state, and
\* a call that reaches the vote adds one to voteCount and to exactly one of
\* the three category counters.
VoteCategories(s) == s.unanimousVotes + s.majorityVotes + s.splitVotes
VotesTally(s) == s.voteCount = VoteCategories(s) /\ s.voteCount <= s.totalFrames
C31_VoteCountersAddUp ==
    [][runtime = "2oo3" =>
        /\ VotesTally(stats)
        /\ VotesTally(stats')
        /\ stats'.voteCount # stats.voteCount
              => /\ stats'.voteCount = stats.voteCount + 1
                 /\ VoteCategories(stats') = VoteCategories(stats) + 1
                 /\ stats'.unanimousVotes \in {stats.unanimousVotes, stats.unanimousVotes + 1}
                 /\ stats'.majorityVotes \in {stats.majorityVotes, stats.majorityVotes + 1}
                 /\ stats'.splitVotes \in {stats.splitVotes, stats.splitVotes + 1}
                 /\ reply'.settled = "resolved"
        /\ (reply'.settled = "resolved" /\ reply'.call.invoked # <<>>)
              => stats'.voteCount = stats.voteCount + 1
      ]_vars

\* two calls have voted, one a majority and one a split
C31_Witness ==
    /\ runtime = "2oo3"
    /\ stats.voteCount = 2
    /\ stats.majorityVotes = 1
    /\ stats.splitVotes = 1
    /\ stats.unanimousVotes = 0
    /\ stats.totalFrames = 2
    /\ pending = <<>>

C34_HotStandbyCountersAgree ==
    (runtime = "hot-standby" /\ boot = "ready") =>
        /\ activeIndex \in {0, 1}
        /\ stats.switchoverCount = stats.crashCount
        /\ activeIndex = stats.crashCount % 2
        /\ getStatsHotStandby.activeInstance = activeIndex
        /\ getStatsHotStandby.standbyInstance = 1 - getStatsHotStandby.activeInstance
        /\ getStatsHotStandby.coldRestarts = created - Cardinality(PoolSlots("hot-standby"))

\* two traps, both rebuilds and one reload done: active is instance 0 again
C34_Witness ==
    /\ runtime = "hot-standby"
    /\ stats.crashCount = 2
    /\ activeIndex = 0
    /\ stats.coldRestarts = 3
    /\ rebuilds = [i \in PoolSlots("hot-standby") |-> 0]
    /\ reloads = <<>>

\* the bytes of the frame a receiveFrame call returned
ReturnedBytes(value) == IF sourceVersion = "result" THEN value.val.bytes ELSE value.bytes

\* C35: with chaos mode off, receiveFrame returns the queued frames in the
\* order they were queued, each once, and with an empty queue it returns the
\* sample frame and the queue stays empty; a receiveFrame call that injects a
\* chaos frame takes nothing from the queue.
C35_QueueIsFifo ==
    /\ [](dequeuedFrames \o frameQueue = queuedFrames)
    /\ [][/\ (received'.from # "none" /\ ~chaosMode)
             => IF frameQueue # <<>>
                THEN /\ received'.from = "queue"
                     /\ ReturnedBytes(received'.value) = Head(frameQueue).bytes
                     /\ frameQueue' = Tail(frameQueue)
                ELSE /\ received'.from = "sample"
                     /\ ReturnedBytes(received'.value)
                            = buildReadResponse(1, 1, <<1000, 2000, 3000, 4000, 5000>>)
                     /\ frameQueue' = <<>>
          /\ received'.from = "chaos"
             => /\ chaosMode
                /\ frameQueue' = frameQueue
                /\ dequeuedFrames' = dequeuedFrames
         ]_vars

\* two different frames were queued and received in order, and a third call
\* got the sample frame
C35_Witness ==
    /\ ~chaosMode
    /\ Len(queuedFrames) = 2
    /\ queuedFrames[1] # queuedFrames[2]
    /\ dequeuedFrames = queuedFrames
    /\ frameQueue = <<>>
    /\ received.from = "sample"

\* C36: each publish appends one message at the end of the store, then calls
\* the registered callback once with the store already holding the message,
\* and returns ok; the array getPublishedMessages returns is a copy, so that
\* changing it leaves the store as it was; clearMessages empties the store and
\* leaves the callback registered.
C36_SinkKeepsEveryMessage ==
    [][/\ sinkReturn'.op = "publish"
          => /\ Len(publishedMessages') = Len(publishedMessages) + 1
             /\ SubSeq(publishedMessages', 1, Len(publishedMessages)) = publishedMessages
             /\ LET message == messageObjects'[publishedMessages'[Len(publishedMessages')]]
                IN  <<message.topic, message.payload, message.qos>> = sinkReturn'.arguments
             /\ sinkReturn'.ret = [tag |-> "ok", val |-> JSUndefined]
             /\ publishCallback' = publishCallback
             /\ callbackCalls' =
                  IF publishCallback = NullRef THEN callbackCalls
                  ELSE Append(callbackCalls, [callback |-> publishCallback,
                                              arguments |-> sinkReturn'.arguments,
                                              stored |-> publishedMessages'])
       /\ sinkReturn'.op = "getPublishedMessages"
          => /\ snapshot'.array = publishedMessages
             /\ publishedMessages' = publishedMessages
       /\ sinkReturn'.op = "mutate"
          => /\ snapshot' # snapshot
             /\ publishedMessages' = publishedMessages
             /\ messageObjects' = messageObjects
       /\ sinkReturn'.op = "mutateMessage"
          => publishedMessages' = publishedMessages
       /\ sinkReturn'.op = "clearMessages"
          => /\ publishedMessages' = <<>>
             /\ publishCallback' = publishCallback
      ]_vars

\* two messages stored with a callback that saw both; the caller has emptied
\* the array it was given and the store still holds both
C36_Witness ==
    /\ Len(publishedMessages) = 2
    /\ publishCallback # NullRef
    /\ Len(callbackCalls) = 2
    /\ callbackCalls[2].stored = publishedMessages
    /\ snapshot.taken
    /\ snapshot.array = <<>>
    /\ sinkReturn.op = "mutate"

\* C37: every frame a generator of the chaos attack library produces,
\* randomGarbage included, has a length greater than 0.
C37_AttackFramesNotEmpty ==
    attack.name # "none" => FrameLength(attack.frame) > 0

\* the layout of a read response for the registers asked for
WellFormedResponse(frame, registers) ==
    LET n == Len(registers)
    IN  /\ FrameLength(frame) = 9 + 2 * n
        /\ DOMAIN frame = 0..(8 + 2 * n)
        /\ frame[2] = 0
        /\ frame[3] = 0
        /\ frame[4] * 256 + frame[5] = 3 + 2 * n
        /\ frame[7] = 3
        /\ frame[8] = 2 * n
        /\ \A i \in 0..(n - 1) :
              /\ frame[9 + 2 * i] \in 0..255
              /\ frame[10 + 2 * i] \in 0..255
              /\ frame[9 + 2 * i] * 256 + frame[10 + 2 * i] = registers[i + 1]

\* C38: for 0 to 127 registers of 16 bits, buildReadResponse returns a frame
\* of 9 + 2n bytes with protocol id 0, the big-endian length field 3 + 2n,
\* function code 3, byte count 2n and register i big-endian at bytes 9 + 2i and
\* 10 + 2i; the DataView version and the byte-arithmetic version return the
\* same frame.
C38_ReadResponseLayout ==
    Len(request.registers) <= 127 =>
        /\ response.dataView.built
              => WellFormedResponse(response.dataView.frame, request.registers)
        /\ response.bytes.built
              => WellFormedResponse(response.bytes.frame, request.registers)
        /\ (response.dataView.built /\ response.bytes.built)
              => response.dataView.frame = response.bytes.frame

\* both versions have built the response for 127 registers 1000, 2000, ...
C38_Witness ==
    /\ Len(request.registers) = 127
    /\ request.registers[2] = 2000
    /\ request.transactionId = 258
    /\ response.dataView.built
    /\ response.bytes.built
    /\ response.bytes.frame[8] = 254
    /\ response.bytes.frame[11] = 7

====
